---- MODULE Spec2Model ----
(***************************************************************************)
(* Model of the file encryption / decryption window (MainWindow):          *)
(* the two button slots, encryptFile, decryptFile and displayFileBytes,    *)
(* over a small file system.  A byte is kept as its unsigned 8-bit         *)
(* pattern 0..255; a path is a sequence of one-character strings.          *)
(***************************************************************************)
EXTENDS Integers, Sequences, FiniteSets, TLC

\* ------------------------------------------------------------------ bounds
MaxLen   == 2     \* longest initial file content, in bytes
MaxFrags == 2     \* an initial path is a concatenation of at most MaxFrags fragments
MaxClicks == 2    \* number of button clicks explored

\* ------------------------------------------------------- program constants
Marker == <<".", "e", "n", "c", "r", "y", "p", "t", "e", "d">>
DumpBytes == 16

\* ------------------------------------------------------------ input sets
ByteVals == {0, 127, 255}
Partial  == <<".", "e", "n", "c", "r", "y", "p", "t", "e">>
Frags    == {<<"d">>, Partial, Marker}

RECURSIVE PathsOf(_)
PathsOf(n) ==
    IF n = 0 THEN {<<>>}
    ELSE LET shorter == PathsOf(n - 1)
         IN  shorter \cup {p \o f : p \in shorter, f \in Frags}

InitPaths == PathsOf(MaxFrags) \ {<<>>}

Contents == UNION {[1..n -> ByteVals] : n \in 0..MaxLen}

\* the file present at the start: any path with a short content, or any
\* content under a plain path
ShortContents == {<<>>, <<0>>, <<255>>}
PlainPaths    == {<<"d">>}

InitFiles ==
    (InitPaths \X ShortContents) \cup (PlainPaths \X Contents)

\* -------------------------------------------------------- byte arithmetic
\* the value of a char holding the pattern u, char being signed
AsChar(u) == IF u >= 128 THEN u - 256 ELSE u

\* the pattern stored when the int n is converted to char
ToByte(n) == n % 256

\* variant: the increment saturates at 0xFF instead of wrapping
encryptedByte_saturating(b) == IF b = 255 THEN 255 ELSE b + 1

encryptedByte(b) == ToByte(AsChar(b) + 1)

\* variant: the decrement saturates at 0x00 instead of wrapping
decryptedByte_saturating(b) == IF b = 0 THEN 0 ELSE b - 1

decryptedByte(b) == ToByte(AsChar(b) - 1)

\* ------------------------------------------------------------ QString
IsAt(s, str, k) ==
    /\ k >= 0
    /\ k + Len(str) <= Len(s)
    /\ \A j \in 1..Len(str) : s[k + j] = str[j]

\* 0-based position of the first occurrence of str in s, -1 when there is none
indexOf(s, str) ==
    LET hits == {k \in 0..Len(s) : IsAt(s, str, k)}
    IN  IF hits = {} THEN -1
        ELSE CHOOSE k \in hits : \A h \in hits : k <= h

\* 0-based position of the last occurrence of str in s, -1 when there is none
lastIndexOf(s, str) ==
    LET hits == {k \in 0..Len(s) : IsAt(s, str, k)}
    IN  IF hits = {} THEN -1
        ELSE CHOOSE k \in hits : \A h \in hits : h <= k

\* QString::left: the whole string when n is negative or not less than its size
left(s, n) ==
    IF n < 0 \/ n >= Len(s) THEN s ELSE SubSeq(s, 1, n)

encryptedFilePath(filePath) == filePath \o Marker

\* variant: the path is cut at the first occurrence of the marker
decryptedFilePath_first(filePath) == left(filePath, indexOf(filePath, Marker))

decryptedFilePath(filePath) == left(filePath, lastIndexOf(filePath, Marker))

\* ------------------------------------------------------- displayFileBytes
HexDigits == <<"0", "1", "2", "3", "4", "5", "6", "7",
               "8", "9", "a", "b", "c", "d", "e", "f">>

Hex2(b) == <<HexDigits[(b \div 16) + 1], HexDigits[(b % 16) + 1]>>

qMax(a, b) == IF a > b THEN a ELSE b

displayFileBytes(data) ==
    LET startIndex == qMax(0, Len(data) - DumpBytes)
    IN  [header |-> "Last 16 File Bytes:",
         lines  |-> [k \in 1..(Len(data) - startIndex) |-> Hex2(data[startIndex + k])]]

\* ------------------------------------------------------------ QProgressBar
\* setValue: a value outside the range is ignored, unless the range is 0..0
setValue(bar, v) ==
    IF (v > bar.maximum \/ v < bar.minimum) /\ (bar.maximum # 0 \/ bar.minimum # 0)
    THEN bar
    ELSE [bar EXCEPT !.value = v]

\* setRange: the value is reset when it falls outside the new range
setRange(bar, lo, hi) ==
    LET top == qMax(lo, hi)
    IN  [bar EXCEPT !.minimum = lo, !.maximum = top,
                    !.value = IF bar.value < lo \/ bar.value > top
                              THEN lo - 1 ELSE bar.value]

setVisible(bar, b) == [bar EXCEPT !.visible = b]

\* ------------------------------------------------------------ messages
MsgEncOk        == [icon |-> "information", title |-> "Encryption",
                    text |-> "File encrypted succesfully!"]
MsgEncWriteFail == [icon |-> "critical", title |-> "Encryption",
                    text |-> "Failed to write encrypted file."]
MsgEncReadFail  == [icon |-> "critical", title |-> "Encryption",
                    text |-> "Failed to open file for reading."]
MsgDecOk        == [icon |-> "information", title |-> "Decryption",
                    text |-> "File decrypted succesfully!"]
MsgDecWriteFail == [icon |-> "critical", title |-> "Decryption",
                    text |-> "Failed to write decrypted file"]
MsgDecReadFail  == [icon |-> "critical", title |-> "Decryption",
                    text |-> "Failed to open file for reading"]
NoMsg           == [icon |-> "none", title |-> "", text |-> ""]

\* ------------------------------------------------------------ file system
Exists(files, p) == p \in DOMAIN files

\* QFile::open(WriteOnly) creates the file or truncates it
Truncate(files, p) ==
    [q \in (DOMAIN files) \cup {p} |-> IF q = p THEN <<>> ELSE files[q]]

\* QFile::write of one byte at the end of the file
WriteByte(files, p, b) == [files EXCEPT ![p] = @ \o <<b>>]

\* ------------------------------------------------------------------ state
VARIABLES
    fs,           \* the file system: path -> contents of each existing file
    bar,          \* progressBar: visible, value, minimum, maximum
    console,      \* what the last displayFileBytes call printed
    pc,           \* position of the running slot; "idle" when none runs
    op,           \* the running (when idle: the last) call: "encrypt", "decrypt", "none"
    filePath,     \* its filePath
    fileOpen,     \* the input QFile is open
    fileData,     \* fileData
    outPath,      \* encryptedFilePath / decryptedFilePath
    outOpen,      \* the output QFile is open
    i,            \* loop index
    message,      \* the message box shown by this run
    msgCount,     \* message boxes shown by this run
    outcome,      \* "None", "ReadFailed", "WriteFailed", "Succeeded"
    clicks,       \* button clicks so far
    fs0,          \* history: the file system when the run started
    wroteAll,     \* history: no write of this run failed
    reports,      \* history: values passed to setValue inside the loop
    prev          \* history: the run that finished before this one

vars == <<fs, bar, console, pc, op, filePath, fileOpen, fileData, outPath,
          outOpen, i, message, msgCount, outcome, clicks, fs0, wroteAll,
          reports, prev>>

NoRun == [op |-> "none", filePath |-> <<>>, fileData |-> <<>>, outPath |-> <<>>,
          outcome |-> "None", wroteAll |-> FALSE]

NoConsole == [header |-> "", lines |-> <<>>]

\* MainWindow::MainWindow: the bar is created hidden, with Qt's default range
Init ==
    /\ \E f \in InitFiles : fs = [q \in {f[1]} |-> f[2]]
    /\ bar = [visible |-> FALSE, value |-> 0 - 1, minimum |-> 0, maximum |-> 100]
    /\ console = NoConsole
    /\ pc = "idle"
    /\ op = "none"
    /\ filePath = <<>>
    /\ fileOpen = FALSE
    /\ fileData = <<>>
    /\ outPath = <<>>
    /\ outOpen = FALSE
    /\ i = 0
    /\ message = NoMsg
    /\ msgCount = 0
    /\ outcome = "None"
    /\ clicks = 0
    /\ fs0 = fs
    /\ wroteAll = TRUE
    /\ reports = <<>>
    /\ prev = NoRun

\* --------------------------------------------------------------- the slots
ThisRun == [op |-> op, filePath |-> filePath, fileData |-> fileData,
            outPath |-> outPath, outcome |-> outcome, wroteAll |-> wroteAll]

\* the file dialog returns an existing file, or the empty string on cancel
getOpenFileName == (DOMAIN fs) \cup {<<>>}

\* the slot: a file is selected; encryptFile is called unless the selection is empty
on_encryptionButton_clicked ==
    /\ pc = "idle"
    /\ clicks < MaxClicks
    /\ clicks' = clicks + 1
    /\ \E sel \in getOpenFileName :
          IF sel # <<>>
          THEN /\ op' = "encrypt"
               /\ filePath' = sel
               /\ pc' = "open"
               /\ fileData' = <<>>
               /\ outPath' = <<>>
               /\ i' = 0
               /\ message' = NoMsg
               /\ msgCount' = 0
               /\ outcome' = "None"
               /\ fs0' = fs
               /\ wroteAll' = TRUE
               /\ reports' = <<>>
               /\ prev' = ThisRun
               /\ UNCHANGED <<fs, bar, console, fileOpen, outOpen>>
          ELSE UNCHANGED <<fs, bar, console, pc, op, filePath, fileOpen, fileData,
                           outPath, outOpen, i, message, msgCount, outcome, fs0,
                           wroteAll, reports, prev>>

\* the slot: a file is selected; decryptFile is called unless the selection is empty
on_decryptionButton_clicked ==
    /\ pc = "idle"
    /\ clicks < MaxClicks
    /\ clicks' = clicks + 1
    /\ \E sel \in getOpenFileName :
          IF sel # <<>>
          THEN /\ op' = "decrypt"
               /\ filePath' = sel
               /\ pc' = "open"
               /\ fileData' = <<>>
               /\ outPath' = <<>>
               /\ i' = 0
               /\ message' = NoMsg
               /\ msgCount' = 0
               /\ outcome' = "None"
               /\ fs0' = fs
               /\ wroteAll' = TRUE
               /\ reports' = <<>>
               /\ prev' = ThisRun
               /\ UNCHANGED <<fs, bar, console, fileOpen, outOpen>>
          ELSE UNCHANGED <<fs, bar, console, pc, op, filePath, fileOpen, fileData,
                           outPath, outOpen, i, message, msgCount, outcome, fs0,
                           wroteAll, reports, prev>>

\* ------------------------------------------------------------ QMessageBox
\* one message box is shown; with it the run has its outcome
information(m, result) ==
    /\ message' = m
    /\ msgCount' = msgCount + 1
    /\ outcome' = result
    /\ pc' = "msg"

critical(m, result) ==
    /\ message' = m
    /\ msgCount' = msgCount + 1
    /\ outcome' = result
    /\ pc' = "msg"

\* ------------------------------------------------------------ encryptFile
\* file.open(ReadOnly) succeeds
encryptFile_open ==
    /\ op = "encrypt"
    /\ pc = "open"
    /\ Exists(fs, filePath)
    /\ fileOpen' = TRUE
    /\ pc' = "read"
    /\ UNCHANGED <<fs, bar, console, op, filePath, fileData, outPath, outOpen, i,
                   message, msgCount, outcome, clicks, fs0, wroteAll, reports, prev>>

\* variant: the output file is created before the input is opened
encryptFile_openFailed_outputCreated ==
    /\ op = "encrypt"
    /\ pc = "open"
    /\ critical(MsgEncReadFail, "ReadFailed")
    /\ fs' = Truncate(fs, encryptedFilePath(filePath))
    /\ UNCHANGED <<bar, console, op, filePath, fileOpen, fileData, outPath,
                   outOpen, i, clicks, fs0, wroteAll, reports, prev>>

\* file.open(ReadOnly) fails: the file is missing, or it may not be read
encryptFile_openFailed ==
    /\ op = "encrypt"
    /\ pc = "open"
    /\ critical(MsgEncReadFail, "ReadFailed")
    /\ UNCHANGED <<fs, bar, console, op, filePath, fileOpen, fileData, outPath,
                   outOpen, i, clicks, fs0, wroteAll, reports, prev>>

\* readAll, close, displayFileBytes, and the output path
encryptFile_read ==
    /\ op = "encrypt"
    /\ pc = "read"
    /\ fileData' = fs[filePath]
    /\ fileOpen' = FALSE
    /\ console' = displayFileBytes(fs[filePath])
    /\ outPath' = encryptedFilePath(filePath)
    /\ pc' = "openw"
    /\ UNCHANGED <<fs, bar, op, filePath, outOpen, i, message, msgCount, outcome,
                   clicks, fs0, wroteAll, reports, prev>>

\* open(WriteOnly) succeeds (never on an empty file name); the bar is set up
encryptFile_openWrite ==
    /\ op = "encrypt"
    /\ pc = "openw"
    /\ outPath # <<>>
    /\ fs' = Truncate(fs, outPath)
    /\ outOpen' = TRUE
    /\ bar' = setRange(setValue(setVisible(bar, TRUE), 0), 0, Len(fileData))
    /\ pc' = "loop"
    /\ UNCHANGED <<console, op, filePath, fileOpen, fileData, outPath, i, message,
                   msgCount, outcome, clicks, fs0, wroteAll, reports, prev>>

\* open(WriteOnly) fails
encryptFile_openWriteFailed ==
    /\ op = "encrypt"
    /\ pc = "openw"
    /\ critical(MsgEncWriteFail, "WriteFailed")
    /\ UNCHANGED <<fs, bar, console, op, filePath, fileOpen, fileData, outPath,
                   outOpen, i, clicks, fs0, wroteAll, reports, prev>>

\* one iteration: the byte is written (the write may fail; its result is not
\* looked at), then setValue(i)
encryptFile_loop ==
    /\ op = "encrypt"
    /\ pc = "loop"
    /\ i < Len(fileData)
    /\ \E ok \in BOOLEAN :
          /\ fs' = IF ok THEN WriteByte(fs, outPath, encryptedByte(fileData[i + 1]))
                         ELSE fs
          /\ wroteAll' = (wroteAll /\ ok)
    /\ bar' = setValue(bar, i)
    /\ reports' = Append(reports, setValue(bar, i).value)
    /\ i' = i + 1
    /\ UNCHANGED <<console, pc, op, filePath, fileOpen, fileData, outPath, outOpen,
                   message, msgCount, outcome, clicks, fs0, prev>>

\* variant: the bar is left visible after the loop
encryptFile_done_barLeft ==
    /\ op = "encrypt"
    /\ pc = "loop"
    /\ i >= Len(fileData)
    /\ outOpen' = FALSE
    /\ information(MsgEncOk, "Succeeded")
    /\ UNCHANGED <<fs, bar, console, op, filePath, fileOpen, fileData, outPath, i,
                   clicks, fs0, wroteAll, reports, prev>>

\* after the loop: the bar is hidden, the output closed, success is reported
encryptFile_done ==
    /\ op = "encrypt"
    /\ pc = "loop"
    /\ i >= Len(fileData)
    /\ bar' = setVisible(bar, FALSE)
    /\ outOpen' = FALSE
    /\ information(MsgEncOk, "Succeeded")
    /\ UNCHANGED <<fs, console, op, filePath, fileOpen, fileData, outPath, i,
                   clicks, fs0, wroteAll, reports, prev>>

\* ------------------------------------------------------------ decryptFile
\* file.open(ReadOnly) succeeds
decryptFile_open ==
    /\ op = "decrypt"
    /\ pc = "open"
    /\ Exists(fs, filePath)
    /\ fileOpen' = TRUE
    /\ pc' = "read"
    /\ UNCHANGED <<fs, bar, console, op, filePath, fileData, outPath, outOpen, i,
                   message, msgCount, outcome, clicks, fs0, wroteAll, reports, prev>>

\* file.open(ReadOnly) fails: the file is missing, or it may not be read
decryptFile_openFailed ==
    /\ op = "decrypt"
    /\ pc = "open"
    /\ critical(MsgDecReadFail, "ReadFailed")
    /\ UNCHANGED <<fs, bar, console, op, filePath, fileOpen, fileData, outPath,
                   outOpen, i, clicks, fs0, wroteAll, reports, prev>>

\* readAll, close, displayFileBytes, and the output path
decryptFile_read ==
    /\ op = "decrypt"
    /\ pc = "read"
    /\ fileData' = fs[filePath]
    /\ fileOpen' = FALSE
    /\ console' = displayFileBytes(fs[filePath])
    /\ outPath' = decryptedFilePath(filePath)
    /\ pc' = "openw"
    /\ UNCHANGED <<fs, bar, op, filePath, outOpen, i, message, msgCount, outcome,
                   clicks, fs0, wroteAll, reports, prev>>

\* open(WriteOnly) succeeds (never on an empty file name); the bar is set up
decryptFile_openWrite ==
    /\ op = "decrypt"
    /\ pc = "openw"
    /\ outPath # <<>>
    /\ fs' = Truncate(fs, outPath)
    /\ outOpen' = TRUE
    /\ bar' = setRange(setValue(setVisible(bar, TRUE), 0), 0, Len(fileData))
    /\ pc' = "loop"
    /\ UNCHANGED <<console, op, filePath, fileOpen, fileData, outPath, i, message,
                   msgCount, outcome, clicks, fs0, wroteAll, reports, prev>>

\* variant: the bar is shown before the output is opened
decryptFile_openWriteFailed_barShown ==
    /\ op = "decrypt"
    /\ pc = "openw"
    /\ critical(MsgDecWriteFail, "WriteFailed")
    /\ bar' = setVisible(bar, TRUE)
    /\ UNCHANGED <<fs, console, op, filePath, fileOpen, fileData, outPath,
                   outOpen, i, clicks, fs0, wroteAll, reports, prev>>

\* open(WriteOnly) fails
decryptFile_openWriteFailed ==
    /\ op = "decrypt"
    /\ pc = "openw"
    /\ critical(MsgDecWriteFail, "WriteFailed")
    /\ UNCHANGED <<fs, bar, console, op, filePath, fileOpen, fileData, outPath,
                   outOpen, i, clicks, fs0, wroteAll, reports, prev>>

\* one iteration: the byte is written (the write may fail; its result is not
\* looked at), then setValue(i)
decryptFile_loop ==
    /\ op = "decrypt"
    /\ pc = "loop"
    /\ i < Len(fileData)
    /\ \E ok \in BOOLEAN :
          /\ fs' = IF ok THEN WriteByte(fs, outPath, decryptedByte(fileData[i + 1]))
                         ELSE fs
          /\ wroteAll' = (wroteAll /\ ok)
    /\ bar' = setValue(bar, i)
    /\ reports' = Append(reports, setValue(bar, i).value)
    /\ i' = i + 1
    /\ UNCHANGED <<console, pc, op, filePath, fileOpen, fileData, outPath, outOpen,
                   message, msgCount, outcome, clicks, fs0, prev>>

\* after the loop: the bar is hidden, the output closed, success is reported
decryptFile_done ==
    /\ op = "decrypt"
    /\ pc = "loop"
    /\ i >= Len(fileData)
    /\ bar' = setVisible(bar, FALSE)
    /\ outOpen' = FALSE
    /\ information(MsgDecOk, "Succeeded")
    /\ UNCHANGED <<fs, console, op, filePath, fileOpen, fileData, outPath, i,
                   clicks, fs0, wroteAll, reports, prev>>

\* the message box is closed; the call and the slot return
Return ==
    /\ pc = "msg"
    /\ pc' = "idle"
    /\ UNCHANGED <<fs, bar, console, op, filePath, fileOpen, fileData, outPath,
                   outOpen, i, message, msgCount, outcome, clicks, fs0, wroteAll,
                   reports, prev>>

RunStep ==
    \/ encryptFile_open
    \/ encryptFile_openFailed
    \/ encryptFile_read
    \/ encryptFile_openWrite
    \/ encryptFile_openWriteFailed
    \/ encryptFile_loop
    \/ encryptFile_done
    \/ decryptFile_open
    \/ decryptFile_openFailed
    \/ decryptFile_read
    \/ decryptFile_openWrite
    \/ decryptFile_openWriteFailed
    \/ decryptFile_loop
    \/ decryptFile_done
    \/ Return

Next ==
    \/ on_encryptionButton_clicked
    \/ on_decryptionButton_clicked
    \/ RunStep

Spec == Init /\ [][Next]_vars

\* a slot runs to its end once started, and the user closes the message box
LiveSpec == Spec /\ WF_vars(RunStep)

\* ================================================================ properties
\* the output path of the run has been computed
PathDerived ==
    \/ pc \in {"openw", "loop"}
    \/ pc \in {"msg", "idle"} /\ outcome \in {"WriteFailed", "Succeeded"}

\* the run is over (its message box is up, or it has returned)
Ended(result) == pc \in {"msg", "idle"} /\ outcome = result

\* this run decrypts the file that the run before it, an encryption, wrote to
DecryptsPrevOutput ==
    /\ prev.op = "encrypt"
    /\ op = "decrypt"
    /\ filePath = prev.outPath

Occurrences(s) == {k \in 0..Len(s) : IsAt(s, Marker, k)}

\* C1: Round trip of contents.  When encryptFile ran on a file holding B and
\* decryptFile then ran on the file it produced, every write of both runs
\* having gone through, the file decryptFile wrote holds exactly B.
C1_RoundTripContents ==
    (/\ DecryptsPrevOutput
     /\ prev.outcome = "Succeeded" /\ prev.wroteAll
     /\ Ended("Succeeded") /\ wroteAll)
    => (Exists(fs, outPath) /\ fs[outPath] = prev.fileData)

C1_Witness ==
    /\ DecryptsPrevOutput
    /\ prev.outcome = "Succeeded" /\ prev.wroteAll
    /\ Ended("Succeeded") /\ wroteAll
    /\ prev.fileData = <<255, 0>>

\* C2: Pointwise transform with wraparound.  After a run in which every write
\* went through, the output file is as long as the input and its byte k is
\* the input's byte k plus 1 (encryptFile) or minus 1 (decryptFile) modulo
\* 256; nothing else is in the file.
C2_PointwiseTransform ==
    (Ended("Succeeded") /\ wroteAll)
    => /\ Exists(fs, outPath)
       /\ Len(fs[outPath]) = Len(fileData)
       /\ \A k \in 1..Len(fileData) :
             /\ fs[outPath][k] \in 0..255
             /\ op = "encrypt" => fs[outPath][k] = (fileData[k] + 1) % 256
             /\ op = "decrypt" => fs[outPath][k] = (fileData[k] + 255) % 256

C2_Witness ==
    /\ Ended("Succeeded") /\ wroteAll
    /\ op = "encrypt"
    /\ fileData = <<255, 127>>
    /\ fs[outPath] = <<0, 128>>

\* C3 as claimed: the decrypt output path is the prefix of the input path up
\* to the FIRST occurrence of ".encrypted".
C3_FirstOccurrence ==
    (op = "decrypt" /\ PathDerived /\ Occurrences(filePath) # {})
    => \E n \in Occurrences(filePath) :
          /\ \A m \in Occurrences(filePath) : n <= m
          /\ outPath = SubSeq(filePath, 1, n)

\* C3 amended: the decrypt output path is the prefix of the input path up to,
\* and not including, the LAST occurrence of ".encrypted".
C3_LastOccurrence ==
    (op = "decrypt" /\ PathDerived /\ Occurrences(filePath) # {})
    => \E n \in Occurrences(filePath) :
          /\ \A m \in Occurrences(filePath) : m <= n
          /\ outPath = SubSeq(filePath, 1, n)

C3_Witness ==
    /\ op = "decrypt" /\ PathDerived
    /\ Cardinality(Occurrences(filePath)) = 2
    /\ outPath # <<>>

\* C4: Round trip of paths.  encryptFile on p writes to p + ".encrypted", and
\* decryptFile on that path writes to exactly p, also when p itself contains
\* ".encrypted".
C4_RoundTripPaths ==
    /\ (op = "encrypt" /\ PathDerived) => outPath = filePath \o Marker
    /\ (DecryptsPrevOutput /\ PathDerived /\ prev.outcome \in {"WriteFailed", "Succeeded"})
       => outPath = prev.filePath

C4_Witness ==
    /\ DecryptsPrevOutput /\ PathDerived
    /\ prev.outcome = "Succeeded"
    /\ Occurrences(prev.filePath) # {}
    /\ Ended("Succeeded")

\* C5 as claimed: in every run the output path differs from the input path,
\* and the input file holds after the run what it held before it.
C5_InputOutputDistinct ==
    /\ PathDerived => outPath # filePath
    /\ (pc = "msg" /\ Exists(fs0, filePath))
       => (Exists(fs, filePath) /\ fs[filePath] = fs0[filePath])

\* C6 as claimed: success is reported only if every byte was written; a write
\* that fails after the output was opened is reported as a failure.
C6_WriteFailureSurfaced ==
    pc = "msg" =>
       /\ outcome = "Succeeded" => wroteAll
       /\ ~wroteAll => message.icon = "critical"

\* C7: Read-open failure.  A run whose input cannot be opened shows one
\* failure message, no success, and leaves the file system as it was: no
\* file is created, opened or truncated, no byte written.
C7_ReadOpenFailure ==
    /\ [](Ended("ReadFailed") =>
            /\ fs = fs0
            /\ ~fileOpen /\ ~outOpen
            /\ msgCount = 1
            /\ message.icon = "critical"
            /\ message \in {MsgEncReadFail, MsgDecReadFail})
    /\ [][(pc = "open" /\ ~fileOpen')
            => (/\ fs' = fs
                /\ pc' = "msg"
                /\ outcome' = "ReadFailed"
                /\ msgCount' = 1
                /\ message'.icon = "critical")]_vars

C7_Witness ==
    /\ pc = "msg" /\ outcome = "ReadFailed"
    /\ Exists(fs, filePath)
    /\ clicks = 2 /\ prev.outcome = "Succeeded"

\* C8: Write-open failure.  A run whose output cannot be opened shows one
\* write-failure message, no success, writes no byte to any file, never shows
\* the progress bar, and leaves the input file as it was.
C8_WriteOpenFailure ==
    /\ [](Ended("WriteFailed") =>
            /\ fs = fs0
            /\ ~bar.visible
            /\ msgCount = 1
            /\ message \in {MsgEncWriteFail, MsgDecWriteFail}
            /\ message.icon = "critical")
    /\ [](pc \in {"open", "read", "openw"} => ~bar.visible)
    /\ [][(pc = "openw" /\ ~outOpen')
            => (/\ fs' = fs
                /\ ~bar'.visible
                /\ pc' = "msg"
                /\ outcome' = "WriteFailed")]_vars

C8_Witness ==
    /\ pc = "msg" /\ outcome = "WriteFailed"
    /\ fileData # <<>>
    /\ outPath # <<>>

\* C9 as claimed: the value reported after the k-th byte is k, once per byte,
\* non-decreasing, the last one being the total; none for an empty input,
\* which still succeeds.
C9_ProgressReports ==
    /\ pc = "loop" =>
          /\ Len(reports) = i
          /\ \A k \in 1..Len(reports) : reports[k] = k
          /\ bar.minimum = 0 /\ bar.maximum = Len(fileData)
    /\ Ended("Succeeded") =>
          /\ Len(reports) = Len(fileData)
          /\ \A k \in 1..Len(reports) : reports[k] = k
          /\ \A j, k \in 1..Len(reports) : j <= k => reports[j] <= reports[k]

\* C10: Run lifecycle.  A run, once started, ends in one of ReadFailed,
\* WriteFailed, Succeeded with exactly one message and returns to idle, the
\* bar hidden and both files closed; a click is possible again whatever came
\* before; a click with an empty selection starts no run and touches no file.
IdleOk ==
    pc = "idle" =>
       /\ ~bar.visible
       /\ ~fileOpen /\ ~outOpen
       /\ op # "none" => (/\ outcome \in {"ReadFailed", "WriteFailed", "Succeeded"}
                          /\ msgCount = 1
                          /\ message # NoMsg)

C10_RunLifecycle ==
    /\ []IdleOk
    /\ [](pc # "idle" => msgCount <= 1)
    /\ (pc = "open") ~> (pc = "idle" /\ msgCount = 1
                         /\ outcome \in {"ReadFailed", "WriteFailed", "Succeeded"})
    /\ [][(pc = "idle" /\ pc' = "idle")
            => UNCHANGED <<fs, bar, console, op, filePath, fileOpen, fileData,
                           outPath, outOpen, i, message, msgCount, outcome>>]_vars
    /\ []((pc = "idle" /\ clicks < MaxClicks)
            => (ENABLED on_encryptionButton_clicked
                /\ ENABLED on_decryptionButton_clicked))

C10_Witness ==
    /\ pc = "idle"
    /\ prev.outcome = "ReadFailed"
    /\ outcome = "Succeeded"
    /\ fileData # <<>>

====
